---------------------------- MODULE Spec2Model ----------------------------
(***************************************************************************)
(* A model of github-mm-release-notes (src/main.go): the milestone unifier *)
(* unifyMilestonesByName, the release-note extractor extractReleaseNote    *)
(* and the issue filter of getPRsWithReleaseNotes.                         *)
(*                                                                         *)
(* Text is modelled character by character: a Go string is a sequence of   *)
(* one-character strings, so that the regular expressions, TrimSpace,      *)
(* Sprintf and Contains work on what the text holds.                       *)
(***************************************************************************)
EXTENDS Integers, Sequences, FiniteSets, TLC

VARIABLES
    pc,             \* where the modelled function is: "start", a step, "done"
    milestoneSets,  \* unifyMilestonesByName: the argument, a sequence of lists
    unified,        \* unifyMilestonesByName: the returned slice
    body,           \* extractReleaseNote: the argument
    rule,           \* extractReleaseNote: the format being tried (1..5), 0 none
    releaseNote,    \* extractReleaseNote: the returned string
    repoURL,        \* getPRsWithReleaseNotes: first argument
    milestoneID,    \* getPRsWithReleaseNotes: second argument
    response,       \* getPRsWithReleaseNotes: what the HTTP round trip gives
    pullRequests,   \* getPRsWithReleaseNotes: the returned slice
    err,            \* getPRsWithReleaseNotes: the returned error
    flagToken,      \* main: the value of the -token flag ("" when not given)
    envToken,       \* main: the value of GITHUB_TOKEN ("" when not set)
    authToken,      \* the package variable authToken
    repoInput,      \* main: the line read at the repository prompt
    repoChoice,     \* main: the repository option, 0 before it is parsed
    fetched,        \* main: the milestone lists of the pass over all repositories
    menuSets,       \* history: the lists that were unified to build the menu
    milestones,     \* main: the milestones displayed for selection
    input,          \* main: the line read at the milestone prompt
    selectedMilestone,  \* main: the milestone chosen
    targetMilestones,   \* main: the members whose PRs are fetched
    prs,            \* main: the accumulated pull requests
    next,           \* main: the index of the repository or member handled next
    out             \* history: what the run did, in order

vars == <<pc, milestoneSets, unified, body, rule, releaseNote,
          repoURL, milestoneID, response, pullRequests, err,
          flagToken, envToken, authToken, repoInput, repoChoice, fetched,
          menuSets, milestones, input, selectedMilestone, targetMilestones,
          prs, next, out>>

unifyVars == <<milestoneSets, unified>>
extractVars == <<body, rule, releaseNote>>
prVars == <<repoURL, milestoneID, response, pullRequests, err>>
mainVars == <<flagToken, envToken, authToken, repoInput, repoChoice, fetched,
              menuSets, milestones, input, selectedMilestone, targetMilestones,
              prs, next, out>>

---------------------------------------------------------------------------
(* Bounds of the model.                                                    *)

\* unifyMilestonesByName: at most this many milestone lists are passed
MaxSets == 2
\* unifyMilestonesByName: at most this many milestones over all the lists
MaxMilestones == 3
\* extractReleaseNote: a body is made of at most this many pieces
MaxFragments == 4
\* getPRsWithReleaseNotes: the answer holds at most this many issues
MaxItems == 2
\* main: the API returns at most this many milestones in a run
MaxFetched == 3
\* main: one answer holds at most this many pull requests
MaxPRs == 1

---------------------------------------------------------------------------
(* Text.                                                                   *)

\* The backtick character: a TLA+ string literal cannot hold it.
Backtick == "backtick"

\* nil, for a pointer, a slice or an error
Nil == "nil"

SeqsUpTo(S, n) == UNION {[1..k -> S] : k \in 0..n}

Range(s) == {s[k] : k \in DOMAIN s}

RECURSIVE Flatten(_)
Flatten(ss) == IF Len(ss) = 0 THEN <<>> ELSE Head(ss) \o Flatten(Tail(ss))

mattermostRepoURL == "https://api.github.com/repos/mattermost/mattermost"
enterpriseRepoURL == "https://api.github.com/repos/mattermost/enterprise"
mobileRepoURL == "https://api.github.com/repos/mattermost/mattermost-mobile"
desktopRepoURL == "https://api.github.com/repos/mattermost/mattermost-desktop"

\* The repositories in the order main passes their milestone lists.
RepoURLs == <<mattermostRepoURL, enterpriseRepoURL, mobileRepoURL, desktopRepoURL>>

---------------------------------------------------------------------------
(* unifyMilestonesByName.                                                  *)

\* The values a milestone of the API may carry.
Titles == {"v1", "v2"}
Descriptions == {"first", "second"}

\* type Milestone
Milestone(number, title, description, url) ==
    [Number |-> number, Title |-> title, Description |-> description,
     RepoURL |-> url]

\* type UnifiedMilestone
UnifiedMilestone(title, description, members) ==
    [Title |-> title, Description |-> description, Milestones |-> members]

\* make(map[string]*UnifiedMilestone)
EmptyMap == [t \in {} |-> Nil]

\* A slip: a repeated title replaces the entry's members.
AddMilestoneReplacing(milestoneMap, milestone) ==
    milestoneMap @@ (milestone.Title :>
        UnifiedMilestone(milestone.Title,
                         IF milestone.Title \in DOMAIN milestoneMap
                         THEN milestoneMap[milestone.Title].Description
                         ELSE milestone.Description,
                         <<milestone>>))

\* A slip: a repeated title also takes the later description.
AddMilestoneLastDescription(milestoneMap, milestone) ==
    IF milestone.Title \in DOMAIN milestoneMap
    THEN [milestoneMap EXCEPT ![milestone.Title] =
            UnifiedMilestone(@.Title, milestone.Description,
                             Append(@.Milestones, milestone))]
    ELSE milestoneMap @@ (milestone.Title :>
            UnifiedMilestone(milestone.Title, milestone.Description,
                             <<milestone>>))

\* The body of the inner loop: one milestone is added to the map.
AddMilestone(milestoneMap, milestone) ==
    IF milestone.Title \in DOMAIN milestoneMap
    THEN [milestoneMap EXCEPT ![milestone.Title].Milestones =
            Append(@, milestone)]
    ELSE milestoneMap @@ (milestone.Title :>
            UnifiedMilestone(milestone.Title, milestone.Description,
                             <<milestone>>))

\* The inner loop: for _, milestone := range milestoneSet
RECURSIVE AddMilestoneSet(_, _)
AddMilestoneSet(milestoneMap, milestoneSet) ==
    IF Len(milestoneSet) = 0 THEN milestoneMap
    ELSE AddMilestoneSet(AddMilestone(milestoneMap, Head(milestoneSet)),
                         Tail(milestoneSet))

\* The outer loop: for _, milestoneSet := range milestoneSets
RECURSIVE AddMilestoneSets(_, _)
AddMilestoneSets(milestoneMap, sets) ==
    IF Len(sets) = 0 THEN milestoneMap
    ELSE AddMilestoneSets(AddMilestoneSet(milestoneMap, Head(sets)), Tail(sets))

\* The map the two loops build.
MilestoneMap(sets) == AddMilestoneSets(EmptyMap, sets)

\* The orders in which Go may range over a map with the keys S: any.
MapOrders(S) ==
    {o \in [1..Cardinality(S) -> S] : \A i, j \in DOMAIN o : i # j => o[i] # o[j]}

\* The slices unifyMilestonesByName may return: the map's values in the
\* order in which the map is ranged over.
unifyMilestonesByName(sets) ==
    LET milestoneMap == MilestoneMap(sets)
    IN  {[i \in DOMAIN o |-> milestoneMap[o[i]]] : o \in MapOrders(DOMAIN milestoneMap)}

\* The arguments: lists of milestones, the k-th list tagged with the k-th
\* repository and its milestones numbered 1, 2, ... as GitHub numbers the
\* milestones of a repository.
MilestoneSetsOf(flat, n, owner) ==
    [k \in 1..n |->
        LET idx == {i \in DOMAIN flat : owner[i] = k}
            pos(j) == CHOOSE i \in idx : Cardinality({h \in idx : h < i}) = j - 1
        IN  [j \in 1..Cardinality(idx) |->
                Milestone(j, flat[pos(j)].Title, flat[pos(j)].Description,
                          RepoURLs[k])]]

\* The ways to cut a list of len milestones into n consecutive lists.
Owners(len, n) ==
    {o \in [1..len -> 1..n] : \A i, j \in 1..len : i < j => o[i] <= o[j]}

\* Up to maxSets lists that hold up to maxMilestones milestones in all.
MilestoneSetsInputs(maxSets, maxMilestones) ==
    UNION {{MilestoneSetsOf(flat, n, owner) : owner \in Owners(Len(flat), n)} :
        flat \in SeqsUpTo([Title : Titles, Description : Descriptions],
                          maxMilestones),
        n \in 0..maxSets}

ExtractIdle == body = <<>> /\ rule = 0 /\ releaseNote = <<>>

PRIdle ==
    /\ repoURL = ""
    /\ milestoneID = 0
    /\ response = Nil
    /\ pullRequests = Nil
    /\ err = Nil

UnifyIdle == milestoneSets = <<>> /\ unified = <<>>

MainIdle ==
    /\ flagToken = "" /\ envToken = "" /\ authToken = ""
    /\ repoInput = <<>> /\ repoChoice = 0
    /\ fetched = <<>> /\ menuSets = <<>> /\ milestones = <<>>
    /\ input = <<>> /\ selectedMilestone = Nil
    /\ targetMilestones = <<>> /\ prs = <<>>
    /\ next = 0 /\ out = <<>>

UnifyInit ==
    /\ pc = "start"
    /\ milestoneSets \in MilestoneSetsInputs(MaxSets, MaxMilestones)
    /\ unified = <<>>
    /\ ExtractIdle
    /\ PRIdle
    /\ MainIdle

\* One call of unifyMilestonesByName.
Unify ==
    /\ pc = "start"
    /\ unified' \in unifyMilestonesByName(milestoneSets)
    /\ pc' = "done"
    /\ UNCHANGED <<milestoneSets, extractVars, prVars, mainVars>>

UnifyNext == Unify

UnifySpec == UnifyInit /\ [][UnifyNext]_vars

---------------------------------------------------------------------------
(* Regular expressions, as Go's regexp package matches them: the leftmost  *)
(* match, and among the matches that start there the one a backtracking    *)
(* search finds first.                                                     *)

\* \s of the regexp syntax: [\t\n\f\r ]
WhiteSpace == {"\t", "\n", "\f", "\r", " "}

\* The letters, for (?i).
LowerCase == <<"a", "b", "c", "d", "e", "f", "g", "h", "i", "j", "k", "l", "m",
               "n", "o", "p", "q", "r", "s", "t", "u", "v", "w", "x", "y", "z">>
UpperCase == <<"A", "B", "C", "D", "E", "F", "G", "H", "I", "J", "K", "L", "M",
               "N", "O", "P", "Q", "R", "S", "T", "U", "V", "W", "X", "Y", "Z">>

\* The characters that c matches under (?i): c in either case.
CaseFold(c) ==
    {c} \cup {UpperCase[k] : k \in {j \in DOMAIN LowerCase : LowerCase[j] = c}}
        \cup {LowerCase[k] : k \in {j \in DOMAIN UpperCase : UpperCase[j] = c}}

\* The nodes of an expression; an expression is a sequence of nodes.
Chr(cls) == [op |-> "chr", cls |-> cls]          \* one character of cls
AnyChar == [op |-> "any"]                        \* . under (?s)
Star(node) == [op |-> "star", node |-> node]     \* x*  (greedy)
LazyStar(node) == [op |-> "lazy", node |-> node] \* x*? (non-greedy)
Alt(a, b) == [op |-> "alt", a |-> a, b |-> b]    \* a|b, a tried first
OpenGroup == [op |-> "open"]                     \* ( of group 1
CloseGroup == [op |-> "close"]                   \* ) of group 1
EndOfText == [op |-> "end"]                      \* $ without (?m)

\* A literal, and a literal under (?i).
Lit(chars) == <<[op |-> "lit", chars |-> chars]>>
LitFold(chars) == [k \in DOMAIN chars |-> Chr(CaseFold(chars[k]))]

\* x? (greedy): x, or nothing
Opt(a) == Alt(a, <<>>)

\* (.*?) as group 1
Capture == <<OpenGroup, LazyStar(AnyChar), CloseGroup>>

Accepts(node, c) == IF node.op = "any" THEN TRUE ELSE c \in node.cls

NoMatch == [ok |-> FALSE]

\* Whether a match of re may begin at position i of s, judged by the first
\* character re asks for: FALSE only when Run would find no match from i.
\* (Run decides the match; the test spares it the branches that fail on
\* their first character.)
RECURSIVE CanBegin(_, _, _)
CanBegin(re, s, i) ==
    IF Len(re) = 0 THEN TRUE
    ELSE LET node == re[1]
         IN  CASE node.op = "lit" -> i <= Len(s) /\ s[i] = node.chars[1]
               [] node.op = "chr" -> i <= Len(s) /\ s[i] \in node.cls
               [] node.op = "any" -> i <= Len(s)
               [] node.op = "end" -> i = Len(s) + 1
               [] node.op \in {"open", "close"} -> CanBegin(Tail(re), s, i)
               [] node.op = "alt" ->
                    \/ Len(node.a) = 0 \/ Len(node.b) = 0
                    \/ CanBegin(node.a, s, i) \/ CanBegin(node.b, s, i)
               [] OTHER -> TRUE

\* The first match of the expression re at position i of s that a
\* backtracking search finds; from and to are group 1's bounds.
RECURSIVE Run(_, _, _, _, _)
Run(re, s, i, from, to) ==
    IF Len(re) = 0 THEN [ok |-> TRUE, end |-> i, from |-> from, to |-> to]
    ELSE LET node == Head(re)
             rest == Tail(re)
         IN  CASE node.op = "lit" ->
                    IF i + Len(node.chars) - 1 <= Len(s)
                       /\ SubSeq(s, i, i + Len(node.chars) - 1) = node.chars
                    THEN Run(rest, s, i + Len(node.chars), from, to) ELSE NoMatch
               [] node.op \in {"chr", "any"} ->
                    IF i <= Len(s) /\ Accepts(node, s[i])
                    THEN Run(rest, s, i + 1, from, to) ELSE NoMatch
               [] node.op = "star" ->
                    LET more == IF i <= Len(s) /\ Accepts(node.node, s[i])
                                THEN Run(re, s, i + 1, from, to) ELSE NoMatch
                    IN  IF more.ok THEN more ELSE Run(rest, s, i, from, to)
               [] node.op = "lazy" ->
                    LET skip == IF CanBegin(rest, s, i)
                                THEN Run(rest, s, i, from, to) ELSE NoMatch
                    IN  IF skip.ok THEN skip
                        ELSE IF i <= Len(s) /\ Accepts(node.node, s[i])
                             THEN Run(re, s, i + 1, from, to) ELSE NoMatch
               [] node.op = "alt" ->
                    LET first == IF CanBegin(node.a, s, i)
                                 THEN Run(node.a \o rest, s, i, from, to)
                                 ELSE NoMatch
                    IN  IF first.ok THEN first
                        ELSE IF CanBegin(node.b, s, i)
                             THEN Run(node.b \o rest, s, i, from, to)
                             ELSE NoMatch
               [] node.op = "open" -> Run(rest, s, i, i, to)
               [] node.op = "close" -> Run(rest, s, i, from, i)
               [] node.op = "end" ->
                    IF i = Len(s) + 1 THEN Run(rest, s, i, from, to) ELSE NoMatch

\* The match of the expression re that starts at position i, if any.
RunAt(re, s, i) == Run(re, s, i, 0, 0)

\* The match that starts at position i, as the slice FindStringSubmatch
\* returns: the whole match, then the text of group 1.
MatchAt(re, s, i) ==
    LET m == RunAt(re, s, i)
    IN  IF m.ok THEN <<SubSeq(s, i, m.end - 1), SubSeq(s, m.from, m.to - 1)>>
        ELSE <<>>

\* (*Regexp).FindStringSubmatch: nil (here <<>>) without a match, else the
\* leftmost match.
FindStringSubmatch(re, s) ==
    LET starts == {i \in 1..(Len(s) + 1) :
                        CanBegin(re, s, i) /\ RunAt(re, s, i).ok}
    IN  IF starts = {} THEN <<>>
        ELSE MatchAt(re, s, CHOOSE i \in starts : \A j \in starts : i <= j)

\* unicode.IsSpace, on the characters the model's texts hold
IsSpace(c) == c \in {"\t", "\n", "\f", "\r", " "}

RECURSIVE TrimLeft(_)
TrimLeft(s) == IF Len(s) > 0 /\ IsSpace(s[1]) THEN TrimLeft(Tail(s)) ELSE s

RECURSIVE TrimRight(_)
TrimRight(s) ==
    IF Len(s) > 0 /\ IsSpace(s[Len(s)]) THEN TrimRight(SubSeq(s, 1, Len(s) - 1))
    ELSE s

\* strings.TrimSpace
TrimSpace(s) == TrimRight(TrimLeft(s))

---------------------------------------------------------------------------
(* extractReleaseNote.                                                     *)

Fence == <<Backtick, Backtick, Backtick>>
ReleaseNoteTag == 
    <<"r", "e", "l", "e", "a", "s", "e", "-", "n", "o", "t", "e">>
NewLine == <<"\n">>
Hashes == <<"#", "#", "#">>
ReleaseNoteHeading == 
    <<"R", "e", "l", "e", "a", "s", "e", " ", "N", "o", "t", "e">>
ReleaseNotePrefix == 
    <<"r", "e", "l", "e", "a", "s", "e", "-", "n", "o", "t", "e", ":">>
BlankLine == <<"\n", "\n">>

\* "(?s)```release-note\n(.*?)\n```"
re1 == Lit(Fence) \o Lit(ReleaseNoteTag) \o Lit(NewLine) \o Capture
       \o Lit(NewLine) \o Lit(Fence)

\* "(?s)```\\s*release-note\\s*\n(.*?)\n\\s*```"
re2 == Lit(Fence) \o <<Star(Chr(WhiteSpace))>> \o Lit(ReleaseNoteTag)
       \o <<Star(Chr(WhiteSpace))>> \o Lit(NewLine) \o Capture
       \o Lit(NewLine) \o <<Star(Chr(WhiteSpace))>> \o Lit(Fence)

\* "(?s)###\\s*Release Note\\s*\n(.*?)(\n###|\n$)"
re3 == Lit(Hashes) \o <<Star(Chr(WhiteSpace))>> \o Lit(ReleaseNoteHeading)
       \o <<Star(Chr(WhiteSpace))>> \o Lit(NewLine) \o Capture
       \o <<Alt(Lit(NewLine) \o Lit(Hashes), Lit(NewLine) \o <<EndOfText>>)>>

\* "(?s)release-note:\\s*(.*?)(\n\n|\n$)"
re4 == Lit(ReleaseNotePrefix) \o <<Star(Chr(WhiteSpace))>> \o Capture
       \o <<Alt(Lit(BlankLine), Lit(NewLine) \o <<EndOfText>>)>>

\* "(?i)(?s)(?:release notes?|release changes?)[:\\s]+(.*?)(\n\n|\n$)"
re5 == <<Alt(LitFold(
    <<"r", "e", "l", "e", "a", "s", "e", " ", "n", "o", "t", "e">>) \o <<Opt(LitFold(<<"s">>))>>,
             LitFold(
    <<"r", "e", "l", "e", "a", "s", "e", " ", "c", "h", "a", "n", "g", "e">>) \o <<Opt(LitFold(<<"s">>))>>)>>
       \o <<Chr({":"} \cup WhiteSpace), Star(Chr({":"} \cup WhiteSpace))>>
       \o Capture
       \o <<Alt(Lit(BlankLine), Lit(NewLine) \o <<EndOfText>>)>>

\* "No release note found"
NoReleaseNoteFound == 
    <<"N", "o", " ", "r", "e", "l", "e", "a", "s", "e", " ", "n", "o", "t",
    "e", " ", "f", "o", "u", "n", "d">>

\* "No release note found in expected format"
NoReleaseNoteFoundInExpectedFormat == 
    <<"N", "o", " ", "r", "e", "l", "e", "a", "s", "e", " ", "n", "o", "t",
    "e", " ", "f", "o", "u", "n", "d", " ", "i", "n", " ", "e", "x", "p", "e",
    "c", "t", "e", "d", " ", "f", "o", "r", "m", "a", "t">>

\* A slip: the free-form rule is tried before the fenced block.
FormatFreeFormFirst(k) ==
    CASE k = 1 -> re5 [] k = 2 -> re2 [] k = 3 -> re3 [] k = 4 -> re4 [] k = 5 -> re1

\* The expressions in the order extractReleaseNote tries them.
Format(k) ==
    CASE k = 1 -> re1 [] k = 2 -> re2 [] k = 3 -> re3 [] k = 4 -> re4 [] k = 5 -> re5

\* The pieces the bodies of the model are made of.
Fragments ==
    { Fence \o ReleaseNoteTag \o NewLine,                  \* ```release-note\n
      NewLine \o <<" ">> \o Fence,                         \* \n ```
      NewLine \o Fence,                                    \* \n```
      NewLine,
      <<"x">>,
      Hashes \o <<" ">> \o ReleaseNoteHeading \o NewLine,  \* ### Release Note\n
      ReleaseNotePrefix,                                   \* release-note:
      <<"R", "e", "l", "e", "a", "s", "e", " ", "n", "o", "t", "e", "s", ":">> }

\* The bodies: up to n pieces, one after the other.
Bodies(n) == {Flatten(fs) : fs \in SeqsUpTo(Fragments, n)}

ExtractInit ==
    /\ pc = "start"
    /\ body \in Bodies(MaxFragments)
    /\ rule = 0
    /\ releaseNote = <<>>
    /\ UnifyIdle
    /\ PRIdle
    /\ MainIdle

\* if body == "" { return "No release note found" }
ExtractEnter ==
    /\ pc = "start"
    /\ IF body = <<>>
       THEN /\ releaseNote' = NoReleaseNoteFound
            /\ pc' = "done"
            /\ rule' = 0
       ELSE /\ pc' = "try"
            /\ rule' = 1
            /\ UNCHANGED releaseNote
    /\ UNCHANGED <<body, unifyVars, prVars, mainVars>>

\* A slip: the failure of the last format returns the empty text.
TryFormatEmptyOnFailure ==
    /\ pc = "try"
    /\ LET matches == FindStringSubmatch(Format(rule), body)
       IN  IF Len(matches) >= 2
           THEN /\ releaseNote' = TrimSpace(matches[2])
                /\ pc' = "done"
                /\ UNCHANGED rule
           ELSE IF rule < 5
           THEN /\ rule' = rule + 1
                /\ UNCHANGED <<pc, releaseNote>>
           ELSE /\ releaseNote' = <<>>
                /\ pc' = "done"
                /\ rule' = 0
    /\ UNCHANGED <<body, unifyVars, prVars, mainVars>>

\* One format is tried: its capture, trimmed, is returned when it matches,
\* the next format is tried when it does not, and the last format's failure
\* returns "No release note found in expected format".
TryFormat ==
    /\ pc = "try"
    /\ LET matches == FindStringSubmatch(Format(rule), body)
       IN  IF Len(matches) >= 2
           THEN /\ releaseNote' = TrimSpace(matches[2])
                /\ pc' = "done"
                /\ UNCHANGED rule
           ELSE IF rule < 5
           THEN /\ rule' = rule + 1
                /\ UNCHANGED <<pc, releaseNote>>
           ELSE /\ releaseNote' = NoReleaseNoteFoundInExpectedFormat
                /\ pc' = "done"
                /\ rule' = 0
    /\ UNCHANGED <<body, unifyVars, prVars, mainVars>>

ExtractNext == ExtractEnter \/ TryFormat

ExtractSpec == ExtractInit /\ [][ExtractNext]_vars

---------------------------------------------------------------------------
(* getPRsWithReleaseNotes: the issues of a milestone are asked of the API   *)
(* and filtered.                                                           *)

\* What the four repository URLs start with, character by character.
ReposPrefix ==
    <<"h", "t", "t", "p", "s", ":", "/", "/", "a", "p", "i", ".", "g", "i",
      "t", "h", "u", "b", ".", "c", "o", "m", "/", "r", "e", "p", "o", "s",
      "/", "m", "a", "t", "t", "e", "r", "m", "o", "s", "t", "/">>

\* The characters of a repository URL.
Chars(url) ==
    CASE url = mattermostRepoURL ->
            ReposPrefix \o
            <<"m", "a", "t", "t", "e", "r", "m", "o", "s", "t">>
      [] url = enterpriseRepoURL ->
            ReposPrefix \o
            <<"e", "n", "t", "e", "r", "p", "r", "i", "s", "e">>
      [] url = mobileRepoURL ->
            ReposPrefix \o
            <<"m", "a", "t", "t", "e", "r", "m", "o", "s", "t", "-", "m",
              "o", "b", "i", "l", "e">>
      [] url = desktopRepoURL ->
            ReposPrefix \o
            <<"m", "a", "t", "t", "e", "r", "m", "o", "s", "t", "-", "d",
              "e", "s", "k", "t", "o", "p">>

Digits == <<"0", "1", "2", "3", "4", "5", "6", "7", "8", "9">>

\* %d of a number that is not negative
RECURSIVE Itoa(_)
Itoa(n) ==
    IF n < 10 THEN <<Digits[n + 1]>>
    ELSE Itoa(n \div 10) \o <<Digits[(n % 10) + 1]>>

\* fmt.Sprintf("%s/pull/%d", repoURL, pr.Number)
SprintfPull(url, number) ==
    Chars(url) \o <<"/", "p", "u", "l", "l", "/">> \o Itoa(number)

\* strings.Contains
Contains(s, substr) ==
    \E i \in 1..(Len(s) - Len(substr) + 1) :
        SubSeq(s, i, i + Len(substr) - 1) = substr

\* http.StatusOK
StatusOK == 200

\* The numbers of the issues and of the milestones of the answers.
IssueNumbers == {7, 12, 305}
MilestoneIDs == {3, 41}

\* One element of the array the issues endpoint answers with: an issue or a
\* pull request. milestone is null (here <<>>) or one object (<<m>>);
\* pull_request is the key GitHub gives to pull requests only.
\* (Title, body and labels are decoded and handed on unchanged; no step of
\* the function reads them.)
Items ==
    [number : IssueNumbers,
     milestone : {<<>>} \cup {<<m>> : m \in [number : MilestoneIDs]},
     pull_request : BOOLEAN]

\* The arrays of up to n elements; a number names one issue.
ItemLists(n) ==
    {l \in SeqsUpTo(Items, n) :
        \A i, j \in DOMAIN l : l[i].number = l[j].number => i = j}

\* A body that is no JSON array of issues, and the bodies that are one.
NotJSON == [json |-> FALSE]
JSON(items) == [json |-> TRUE, items |-> items]

\* What client.Do gives: an error, or a response with a status code and a
\* body.
Responses(n) ==
    {[Error |-> "transport"]}
    \cup {[Error |-> Nil, StatusCode |-> 404, Body |-> NotJSON]}
    \cup {[Error |-> Nil, StatusCode |-> StatusOK, Body |-> b] :
                b \in {NotJSON} \cup {JSON(l) : l \in ItemLists(n)}}

\* json.Decode into PullRequest: the keys the struct names are kept, the
\* others are dropped. Milestone is a pointer: <<>> is nil.
PullRequest(item) ==
    [Number |-> item.number,
     Milestone |-> [k \in DOMAIN item.milestone |->
                        [Number |-> item.milestone[k].number]]]

Decode(items) == [i \in DOMAIN items |-> PullRequest(items[i])]

\* A slip: the milestone is not looked at.
KeepWithoutMilestone(url, pr) ==
    Contains(SprintfPull(url, pr.Number), <<"p", "u", "l", "l">>)

\* The test of the loop: the element is appended when it holds.
Keep(url, pr) ==
    /\ Contains(SprintfPull(url, pr.Number), <<"p", "u", "l", "l">>)
    /\ pr.Milestone # <<>>

\* The loop over prs.
Filter(url, decoded) == SelectSeq(decoded, LAMBDA pr : Keep(url, pr))

PRInit ==
    /\ pc = "start"
    /\ repoURL \in Range(RepoURLs)
    /\ milestoneID \in MilestoneIDs
    /\ response = Nil
    /\ pullRequests = Nil
    /\ err = Nil
    /\ UnifyIdle
    /\ ExtractIdle
    /\ MainIdle

\* resp, err := client.Do(req); if err != nil { return nil, err }
Do ==
    /\ pc = "start"
    /\ \E r \in Responses(MaxItems) :
        /\ response' = r
        /\ IF r.Error # Nil
           THEN /\ err' = r.Error
                /\ pc' = "done"
           ELSE /\ pc' = "status"
                /\ UNCHANGED err
    /\ UNCHANGED <<repoURL, milestoneID, pullRequests, unifyVars, extractVars,
                   mainVars>>

\* if resp.StatusCode != http.StatusOK { return nil, fmt.Errorf(...) }
CheckStatus ==
    /\ pc = "status"
    /\ IF response.StatusCode # StatusOK
       THEN /\ err' = "status"
            /\ pc' = "done"
       ELSE /\ pc' = "decode"
            /\ UNCHANGED err
    /\ UNCHANGED <<repoURL, milestoneID, response, pullRequests, unifyVars,
                   extractVars, mainVars>>

\* The body is decoded and the loop appends what passes the test.
DecodeAndFilter ==
    /\ pc = "decode"
    /\ IF ~response.Body.json
       THEN /\ err' = "decode"
            /\ UNCHANGED pullRequests
       ELSE /\ pullRequests' = Filter(repoURL, Decode(response.Body.items))
            /\ UNCHANGED err
    /\ pc' = "done"
    /\ UNCHANGED <<repoURL, milestoneID, response, unifyVars, extractVars,
                   mainVars>>

PRNext == Do \/ CheckStatus \/ DecodeAndFilter

PRSpec == PRInit /\ [][PRNext]_vars

---------------------------------------------------------------------------
(* main: the token, the two prompts, the fetches and the output.           *)

\* defaultAuthToken = ""
defaultAuthToken == ""

\* What the flag and the environment variable may hold.
FlagTokens == {"", "flag-token"}
EnvTokens == {"", "env-token"}

\* A slip: the environment variable is looked at before the flag.
getGitHubTokenEnvFirst(flagValue, envValue) ==
    IF envValue # "" THEN envValue
    ELSE IF flagValue # "" THEN flagValue
    ELSE defaultAuthToken

\* getGitHubToken, of the value of the flag and of GITHUB_TOKEN
getGitHubToken(flagValue, envValue) ==
    IF flagValue # "" THEN flagValue
    ELSE IF envValue # "" THEN envValue
    ELSE defaultAuthToken

\* if authToken != "" { req.Header.Set("Authorization", "Bearer "+authToken) }
\* The header of the request: <<>> when it is not set.
Authorization(token) ==
    IF token # "" THEN <<"Bearer ", token>> ELSE <<>>

\* One entry of out: a request sent, or a line printed or a step taken.
Request(what, url, number) ==
    [ev |-> what, url |-> url, number |-> number,
     Authorization |-> Authorization(authToken)]
Did(what) == [ev |-> what, url |-> "", number |-> 0, Authorization |-> <<>>]
DidFor(what, number) ==
    [ev |-> what, url |-> "", number |-> number, Authorization |-> <<>>]

\* The request before it in out got an error for an answer: no connection,
\* a status that is not 200, or a body that cannot be decoded.
Failed == Did("request failed")

\* strconv.Atoi: an optional sign, then digits and nothing else.
DigitValue(c) == (CHOOSE d \in DOMAIN Digits : Digits[d] = c) - 1

RECURSIVE ParseDigits(_, _)
ParseDigits(s, acc) ==
    IF Len(s) = 0 THEN acc
    ELSE ParseDigits(Tail(s), 10 * acc + DigitValue(Head(s)))

\* A slip: the digits the text starts with are parsed and the rest is left.
AtoiPrefix(s) ==
    LET stop == {i \in DOMAIN s : s[i] \notin Range(Digits)}
        len == IF stop = {} THEN Len(s)
               ELSE (CHOOSE i \in stop : \A j \in stop : i <= j) - 1
    IN  IF len = 0 THEN [err |-> TRUE, n |-> 0]
        ELSE [err |-> FALSE, n |-> ParseDigits(SubSeq(s, 1, len), 0)]

Atoi(s) ==
    LET signed == Len(s) > 0 /\ s[1] \in {"+", "-"}
        digits == IF signed THEN Tail(s) ELSE s
    IN  IF Len(digits) = 0 \/ \E i \in DOMAIN digits : digits[i] \notin Range(Digits)
        THEN [err |-> TRUE, n |-> 0]
        ELSE [err |-> FALSE,
              n |-> IF signed /\ s[1] = "-" THEN 0 - ParseDigits(digits, 0)
                    ELSE ParseDigits(digits, 0)]

\* The lines the user may type at the repository prompt; <<>> is the end
\* of the input.
RepoInputs ==
    { <<>>, <<"\n">>, <<"x", "\n">>, <<"1", "x", "\n">>, <<"0", "\n">>,
      <<"6", "\n">>, <<"1", "2", "\n">>, <<"-", "1", "\n">>,
      <<"+", "1", "\n">>, <<" ", "4", " ", "\n">>, <<"5", "\n">> }

\* The lines the user may type at the milestone prompt.
MilestoneInputs ==
    { <<>>, <<"x", "\n">>, <<"0", "\n">>, <<"1", "\n">>, <<" ", "2", "\n">>,
      <<"3", "\n">> }

\* repoURL as the switch sets it for the options 1 to 4
RepoURLOf(choice) == RepoURLs[choice]

MainInit ==
    /\ pc = "start"
    /\ flagToken \in FlagTokens
    /\ envToken \in EnvTokens
    /\ authToken = ""
    /\ repoInput = <<>> /\ repoChoice = 0
    /\ fetched = <<>> /\ menuSets = <<>> /\ milestones = <<>>
    /\ input = <<>> /\ selectedMilestone = Nil
    /\ targetMilestones = <<>> /\ prs = <<>>
    /\ next = 0 /\ out = <<>>
    /\ UnifyIdle
    /\ ExtractIdle
    /\ PRIdle

\* authToken = getGitHubToken(), and the line printed about it.
ResolveToken ==
    /\ pc = "start"
    /\ authToken' = getGitHubToken(flagToken, envToken)
    /\ out' = Append(out, IF authToken' = "" THEN Did("Warning: No GitHub token found")
                          ELSE Did("Using GitHub token"))
    /\ pc' = "repository"
    /\ UNCHANGED <<flagToken, envToken, repoInput, repoChoice, fetched, menuSets,
                   milestones, input, selectedMilestone, targetMilestones, prs,
                   next, unifyVars, extractVars, prVars>>

\* The repository menu and prompt; the line read is trimmed and parsed.
SelectRepository ==
    /\ pc = "repository"
    /\ \E line \in RepoInputs :
        LET parsed == Atoi(TrimSpace(line))
        IN  /\ repoInput' = line
            /\ IF parsed.err \/ parsed.n < 1 \/ parsed.n > 5
               THEN /\ out' = out \o <<Did("Select an option (1-5)"),
                                        Did("Invalid selection")>>
                    /\ pc' = "exit"
                    /\ UNCHANGED <<repoChoice, next>>
               ELSE /\ out' = Append(out, Did("Select an option (1-5)"))
                    /\ repoChoice' = parsed.n
                    /\ next' = 1
                    /\ pc' = IF parsed.n = 5 THEN "all" ELSE "single"
    /\ UNCHANGED <<flagToken, envToken, authToken, fetched, menuSets, milestones,
                   input, selectedMilestone, targetMilestones, prs, unifyVars,
                   extractVars, prVars>>

\* What getMilestones may return: an error, or the decoded list. A list
\* holds up to n milestones with different titles, numbered 1, 2, ...;
\* RepoURL is not decoded (json:"-").
MilestoneLists(n) ==
    {[j \in DOMAIN l |-> Milestone(j, l[j], "", "")] :
        l \in {t \in SeqsUpTo(Titles, n) :
                    \A i, j \in DOMAIN t : t[i] = t[j] => i = j}}

MilestoneAnswers(n) ==
    {[err |-> TRUE, milestones |-> <<>>]}
    \cup {[err |-> FALSE, milestones |-> l] : l \in MilestoneLists(n)}

\* The milestones the API has returned so far in this run.
Returned ==
    Len(Flatten(menuSets)) + Len(Flatten(fetched))
    + (IF repoChoice \in 1..4 THEN Len(milestones) ELSE 0)

\* for i := range ms { ms[i].RepoURL = url }
WithRepoURL(ms, url) ==
    [i \in DOMAIN ms |->
        Milestone(ms[i].Number, ms[i].Title, ms[i].Description, url)]

\* What getPRsWithReleaseNotes may return: an error, or a list of up to n
\* pull requests, numbered 1, 2, ...
PRAnswers(n) ==
    {[err |-> TRUE, prs |-> <<>>]}
    \cup {[err |-> FALSE, prs |-> [j \in 1..k |-> [Number |-> j]]] : k \in 0..n}

\* case 1 to 4: milestones, err = getMilestones(repoURL); the error is
\* reported after the switch and ends the run.
GetMilestonesSingle ==
    /\ pc = "single"
    /\ \E a \in MilestoneAnswers(MaxFetched) :
        IF a.err
        THEN /\ out' = out \o <<Request("GET milestones", RepoURLOf(repoChoice), 0),
                                 Failed, Did("Error getting milestones")>>
             /\ pc' = "exit"
             /\ UNCHANGED milestones
        ELSE /\ out' = Append(out, Request("GET milestones", RepoURLOf(repoChoice), 0))
             /\ milestones' = a.milestones
             /\ pc' = "milestone"
    /\ UNCHANGED <<flagToken, envToken, authToken, repoInput, repoChoice, fetched,
                   menuSets, input, selectedMilestone, targetMilestones, prs,
                   next, unifyVars, extractVars, prVars>>

\* case 5: the milestones of the repository numbered next are fetched and
\* tagged; an error is reported and ends the run.
GetMilestonesAll ==
    /\ pc = "all"
    /\ \E a \in MilestoneAnswers(MaxFetched - Returned) :
        IF a.err
        THEN /\ out' = out \o <<Request("GET milestones", RepoURLs[next], 0),
                                 Failed, Did("Error getting milestones from")>>
             /\ pc' = "exit"
             /\ UNCHANGED <<fetched, next>>
        ELSE /\ out' = Append(out, Request("GET milestones", RepoURLs[next], 0))
             /\ fetched' = Append(fetched, WithRepoURL(a.milestones, RepoURLs[next]))
             /\ next' = next + 1
             /\ pc' = IF next = Len(RepoURLs) THEN "unify" ELSE "all"
    /\ UNCHANGED <<flagToken, envToken, authToken, repoInput, repoChoice, menuSets,
                   milestones, input, selectedMilestone, targetMilestones, prs,
                   unifyVars, extractVars, prVars>>

\* The lists are unified and the first member of every unified milestone is
\* displayed for it.
UnifyAll ==
    /\ pc = "unify"
    /\ \E unifiedMilestones \in unifyMilestonesByName(fetched) :
        milestones' = [i \in DOMAIN unifiedMilestones |->
                            unifiedMilestones[i].Milestones[1]]
    /\ menuSets' = fetched
    /\ fetched' = <<>>
    /\ pc' = "milestone"
    /\ UNCHANGED <<flagToken, envToken, authToken, repoInput, repoChoice, input,
                   selectedMilestone, targetMilestones, prs, next, out,
                   unifyVars, extractVars, prVars>>

\* The milestones are displayed, the prompt is issued and the line read is
\* trimmed and parsed.
SelectMilestone ==
    /\ pc = "milestone"
    /\ \E line \in MilestoneInputs :
        LET parsed == Atoi(TrimSpace(line))
            shown == <<Did("Working with"), Did("Available milestones"),
                       Did("Select a milestone (number)")>>
        IN  /\ input' = line
            /\ IF parsed.err \/ parsed.n < 1 \/ parsed.n > Len(milestones)
               THEN /\ out' = out \o shown \o <<Did("Invalid selection")>>
                    /\ pc' = "exit"
                    /\ UNCHANGED <<selectedMilestone, next>>
               ELSE /\ out' = out \o shown \o <<Did("Selected milestone")>>
                    /\ selectedMilestone' = milestones[parsed.n]
                    /\ next' = 1
                    /\ pc' = IF repoChoice = 5 THEN "again" ELSE "prs"
    /\ UNCHANGED <<flagToken, envToken, authToken, repoInput, repoChoice, fetched,
                   menuSets, milestones, targetMilestones, prs, unifyVars,
                   extractVars, prVars>>

\* ms, _ := getMilestones(url): after the selection the milestones of the
\* repository numbered next are fetched again; an error leaves the list nil.
GetMilestonesAgain ==
    /\ pc = "again"
    /\ \E a \in MilestoneAnswers(MaxFetched - Returned) :
        /\ fetched' = Append(fetched, WithRepoURL(a.milestones, RepoURLs[next]))
        /\ out' = out \o <<Request("GET milestones", RepoURLs[next], 0)>>
                      \o (IF a.err THEN <<Failed>> ELSE <<>>)
    /\ next' = next + 1
    /\ pc' = IF next = Len(RepoURLs) THEN "target" ELSE "again"
    /\ UNCHANGED <<flagToken, envToken, authToken, repoInput, repoChoice, menuSets,
                   milestones, input, selectedMilestone, targetMilestones, prs,
                   unifyVars, extractVars, prVars>>

\* The members of the first unified milestone with the selected title, nil
\* when there is none.
TargetOf(unifiedMilestones, title) ==
    LET hits == {i \in DOMAIN unifiedMilestones : unifiedMilestones[i].Title = title}
    IN  IF hits = {} THEN <<>>
        ELSE unifiedMilestones[CHOOSE i \in hits : \A j \in hits : i <= j].Milestones

\* The lists fetched again are unified and the target is looked up.
FindTarget ==
    /\ pc = "target"
    /\ \E unifiedMilestones \in unifyMilestonesByName(fetched) :
        targetMilestones' = TargetOf(unifiedMilestones, selectedMilestone.Title)
    /\ next' = 1
    /\ pc' = IF targetMilestones' = <<>> THEN "print" ELSE "prsAll"
    /\ UNCHANGED <<flagToken, envToken, authToken, repoInput, repoChoice, fetched,
                   menuSets, milestones, input, selectedMilestone, prs, out,
                   unifyVars, extractVars, prVars>>

\* A slip: an error ends the loop, as it ends the run of one repository.
GetPRsAllStopOnError ==
    /\ pc = "prsAll"
    /\ LET milestone == targetMilestones[next]
           request == Request("GET issues", milestone.RepoURL, milestone.Number)
       IN  \E a \in PRAnswers(MaxPRs) :
            IF a.err
            THEN /\ out' = out \o <<request, Failed, Did("Error getting PRs from")>>
                 /\ pc' = "print"
                 /\ UNCHANGED prs
            ELSE /\ out' = out \o <<request, DidFor("PRs returned", Len(a.prs))>>
                 /\ prs' = prs \o a.prs
                 /\ pc' = IF next = Len(targetMilestones) THEN "print" ELSE "prsAll"
    /\ next' = next + 1
    /\ UNCHANGED <<flagToken, envToken, authToken, repoInput, repoChoice, fetched,
                   menuSets, milestones, input, selectedMilestone,
                   targetMilestones, unifyVars, extractVars, prVars>>

\* One turn of the loop over targetMilestones: the PRs of the member are
\* fetched; an error is printed and the loop goes on.
GetPRsAll ==
    /\ pc = "prsAll"
    /\ LET milestone == targetMilestones[next]
           request == Request("GET issues", milestone.RepoURL, milestone.Number)
       IN  \E a \in PRAnswers(MaxPRs) :
            IF a.err
            THEN /\ out' = out \o <<request, Failed, Did("Error getting PRs from")>>
                 /\ UNCHANGED prs
            ELSE /\ out' = out \o <<request, DidFor("PRs returned", Len(a.prs))>>
                 /\ prs' = prs \o a.prs
    /\ next' = next + 1
    /\ pc' = IF next = Len(targetMilestones) THEN "print" ELSE "prsAll"
    /\ UNCHANGED <<flagToken, envToken, authToken, repoInput, repoChoice, fetched,
                   menuSets, milestones, input, selectedMilestone,
                   targetMilestones, unifyVars, extractVars, prVars>>

\* A slip: after the error is printed the run goes on to the output.
GetPRsSingleGoesOn ==
    /\ pc = "prs"
    /\ LET request == Request("GET issues", RepoURLOf(repoChoice),
                              selectedMilestone.Number)
       IN  \E a \in PRAnswers(MaxPRs) :
            IF a.err
            THEN /\ out' = out \o <<request, Failed, Did("Error getting PRs")>>
                 /\ pc' = "print"
                 /\ UNCHANGED prs
            ELSE /\ out' = out \o <<request, DidFor("PRs returned", Len(a.prs))>>
                 /\ prs' = a.prs
                 /\ pc' = "print"
    /\ UNCHANGED <<flagToken, envToken, authToken, repoInput, repoChoice, fetched,
                   menuSets, milestones, input, selectedMilestone,
                   targetMilestones, next, unifyVars, extractVars, prVars>>

\* prs, err = getPRsWithReleaseNotes(repoURL, selectedMilestone.Number); an
\* error is printed and ends the run.
GetPRsSingle ==
    /\ pc = "prs"
    /\ LET request == Request("GET issues", RepoURLOf(repoChoice),
                              selectedMilestone.Number)
       IN  \E a \in PRAnswers(MaxPRs) :
            IF a.err
            THEN /\ out' = out \o <<request, Failed, Did("Error getting PRs")>>
                 /\ pc' = "exit"
                 /\ UNCHANGED prs
            ELSE /\ out' = out \o <<request, DidFor("PRs returned", Len(a.prs))>>
                 /\ prs' = a.prs
                 /\ pc' = "print"
    /\ UNCHANGED <<flagToken, envToken, authToken, repoInput, repoChoice, fetched,
                   menuSets, milestones, input, selectedMilestone,
                   targetMilestones, next, unifyVars, extractVars, prVars>>

\* What the loop over prs does for one pull request.
PrintedFor(pr) ==
    <<DidFor("extractReleaseNote", pr.Number), DidFor("PR #", pr.Number)>>

\* The end of main: the message that there are no PRs, or the heading and
\* every pull request with its release note.
PrintReleaseNotes ==
    /\ pc = "print"
    /\ out' = IF Len(prs) = 0
              THEN Append(out, Did("No PRs with 'release-note' label found"))
              ELSE out \o <<Did("PRs with release notes in milestone")>>
                       \o Flatten([i \in DOMAIN prs |-> PrintedFor(prs[i])])
    /\ pc' = "exit"
    /\ UNCHANGED <<flagToken, envToken, authToken, repoInput, repoChoice, fetched,
                   menuSets, milestones, input, selectedMilestone,
                   targetMilestones, prs, next, unifyVars, extractVars, prVars>>

MainNext ==
    \/ ResolveToken \/ SelectRepository
    \/ GetMilestonesSingle \/ GetMilestonesAll \/ UnifyAll
    \/ SelectMilestone \/ GetMilestonesAgain \/ FindTarget
    \/ GetPRsAll \/ GetPRsSingle \/ PrintReleaseNotes

MainSpec == MainInit /\ [][MainNext]_vars

---------------------------------------------------------------------------
(* unifyMilestonesByName: the claims.                                      *)

\* The milestones of the argument in the order the loops visit them.
InputMilestones == Flatten(milestoneSets)

InputTitles == {InputMilestones[i].Title : i \in DOMAIN InputMilestones}

\* How often m occurs in the sequence s.
Count(s, m) == Cardinality({i \in DOMAIN s : s[i] = m})

\* C1: the result holds exactly one UnifiedMilestone per distinct title of
\* the input, and its members are all and only the input milestones that
\* carry the title, each with its own number and repository.
C1_OnePerTitle ==
    pc = "done" =>
        /\ Len(unified) = Cardinality(InputTitles)
        /\ \A t \in InputTitles :
            Cardinality({i \in DOMAIN unified : unified[i].Title = t}) = 1
        /\ \A i \in DOMAIN unified :
            /\ unified[i].Title \in InputTitles
            /\ \A m \in Range(InputMilestones) \cup Range(unified[i].Milestones) :
                Count(unified[i].Milestones, m) =
                    IF m.Title = unified[i].Title
                    THEN Count(InputMilestones, m) ELSE 0

\* A title of two repositories gave one entry with two members, beside the
\* single-member entry of another title.
C1_Witness ==
    /\ pc = "done"
    /\ Len(unified) = 2
    /\ \E i \in DOMAIN unified :
        /\ Len(unified[i].Milestones) = 2
        /\ unified[i].Milestones[1].RepoURL # unified[i].Milestones[2].RepoURL
    /\ \E i \in DOMAIN unified : Len(unified[i].Milestones) = 1

\* The input milestones titled t, in the order the loops visit them.
Titled(t) == SelectSeq(InputMilestones, LAMBDA m : m.Title = t)

\* C2: the description of a UnifiedMilestone is that of the first input
\* milestone with its title, and its members are the milestones with that
\* title in the order they were met.
C2_FirstSeenWins ==
    pc = "done" =>
        \A i \in DOMAIN unified :
            /\ unified[i].Description = Titled(unified[i].Title)[1].Description
            /\ unified[i].Milestones = Titled(unified[i].Title)

\* A later milestone of another repository had the title with another
\* description, and the first description was kept.
C2_Witness ==
    /\ pc = "done"
    /\ \E i \in DOMAIN unified :
        /\ Len(unified[i].Milestones) >= 2
        /\ unified[i].Milestones[1].RepoURL # unified[i].Milestones[2].RepoURL
        /\ unified[i].Milestones[2].Description # unified[i].Milestones[1].Description
        /\ unified[i].Description = unified[i].Milestones[1].Description

---------------------------------------------------------------------------
(* extractReleaseNote: the claims.                                         *)

\* The five rules by their numbers.
FiveRules == <<re1, re2, re3, re4, re5>>

\* Rule k matches the body.
RuleMatches(k) == Len(FindStringSubmatch(FiveRules[k], body)) >= 2

\* The first position at or after from where sub occurs in s, 0 if none.
IndexOf(s, sub, from) ==
    LET at == {i \in from..(Len(s) - Len(sub) + 1) :
                    SubSeq(s, i, i + Len(sub) - 1) = sub}
    IN  IF at = {} THEN 0 ELSE CHOOSE i \in at : \A j \in at : i <= j

\* r is text with the white space at its two ends removed and nothing else
\* changed: the part of text from its first to its last character that is
\* no white space.
IsTrimOf(r, text) ==
    LET solid == {i \in DOMAIN text : ~IsSpace(text[i])}
    IN  IF solid = {} THEN r = <<>>
        ELSE r = SubSeq(text, CHOOSE i \in solid : \A j \in solid : i <= j,
                              CHOOSE i \in solid : \A j \in solid : i >= j)

\* C3: the rules are tried in the order 1 to 5 and the result is the trimmed
\* capture of the lowest-numbered rule that matches; a body that satisfies
\* rule 1 and rule 5 gives rule 1's capture. (rule is the number of the rule
\* whose capture was returned, 0 when a sentinel was: the rule that gave the
\* result matches, no rule before it does, and a sentinel is given only
\* when no rule matches.)
C3_LowestRuleWins ==
    (pc = "done" /\ body # <<>>) =>
        IF rule = 0 THEN \A k \in 1..5 : ~RuleMatches(k)
        ELSE /\ \A j \in 1..(rule - 1) : ~RuleMatches(j)
             /\ LET matches == FindStringSubmatch(FiveRules[rule], body)
                IN  Len(matches) >= 2 /\ IsTrimOf(releaseNote, matches[2])

\* A body satisfied rule 1 and rule 5 with different captures, and rule 1's
\* was returned.
C3_Witness ==
    /\ pc = "done"
    /\ rule = 1
    /\ RuleMatches(5)
    /\ TrimSpace(FindStringSubmatch(re5, body)[2]) # releaseNote
    /\ releaseNote # <<>>

\* C4: the empty body, and a body that none of the five rules matches, give
\* a not-found sentinel, never a captured text. (Stated the other way
\* round: a result that is no sentinel comes from a body that is not empty
\* and that a rule matches, the rule that gave the result or another.)
C4_NotFound ==
    pc = "done" =>
        /\ body = <<>> => releaseNote = NoReleaseNoteFound
        /\ body # <<>> =>
                \/ releaseNote = NoReleaseNoteFoundInExpectedFormat
                \/ (rule # 0 /\ RuleMatches(rule))
                \/ \E k \in 1..5 : RuleMatches(k)

\* A body that holds the release-note: prefix was matched by no rule and
\* gave the sentinel.
C4_Witness ==
    /\ pc = "done"
    /\ IndexOf(body, ReleaseNotePrefix, 1) # 0
    /\ \A k \in 1..5 : ~RuleMatches(k)
    /\ releaseNote = NoReleaseNoteFoundInExpectedFormat

\* C5: whenever a rule matched, the returned text is non-empty and has no
\* white space at its ends.
C5_FoundIsNonEmptyTrimmed ==
    (pc = "done" /\ rule # 0) =>
        /\ releaseNote # <<>>
        /\ ~IsSpace(releaseNote[1])
        /\ ~IsSpace(releaseNote[Len(releaseNote)])

OpenFence == Fence \o ReleaseNoteTag \o NewLine
CloseFence == NewLine \o Fence

\* The start of the first opening fence, 0 if none.
FirstOpen == IndexOf(body, OpenFence, 1)

\* The start of the first closing fence after the opening one, 0 if none:
\* a line break and a triple backtick alone on its line, that is, followed
\* by a line break or by the end of the text.
FirstCloseOwnLine ==
    LET at == {i \in (FirstOpen + Len(OpenFence))..(Len(body) - Len(CloseFence) + 1) :
                    /\ SubSeq(body, i, i + Len(CloseFence) - 1) = CloseFence
                    /\ \/ i + Len(CloseFence) = Len(body) + 1
                       \/ body[i + Len(CloseFence)] = "\n"}
    IN  IF at = {} THEN 0 ELSE CHOOSE i \in at : \A j \in at : i <= j

\* C6: a body with a block that opens with ```release-note and a line
\* break and closes with a fence on its own line gives the content of the
\* first such block, with the white space at its ends removed and nothing
\* else changed, and nothing of what follows the closing fence.
C6_FencedBlockOwnLine ==
    (pc = "done" /\ FirstOpen # 0 /\ FirstCloseOwnLine # 0) =>
        IsTrimOf(releaseNote,
                 SubSeq(body, FirstOpen + Len(OpenFence), FirstCloseOwnLine - 1))

\* The rules before rule k do not match the body.
NoEarlierRule(k) == \A j \in 1..(k - 1) : ~RuleMatches(j)

\* The first position at or after from whose character is no white space,
\* Len(s) + 1 if none.
SkipSpace(s, from) ==
    LET at == {i \in from..Len(s) : ~IsSpace(s[i])}
    IN  IF at = {} THEN Len(s) + 1 ELSE CHOOSE i \in at : \A j \in at : i <= j

\* The text after the first release-note: token and the white space that
\* follows it, up to the first blank line or else the end of the body.
AfterPrefix ==
    LET from == SkipSpace(body, IndexOf(body, ReleaseNotePrefix, 1)
                                    + Len(ReleaseNotePrefix))
        blank == IndexOf(body, BlankLine, from)
    IN  SubSeq(body, from, IF blank = 0 THEN Len(body) ELSE blank - 1)

\* C7: when rules 1 to 3 do not match and the body holds release-note:, the
\* result is the text after it up to the first blank line, or up to the end
\* of the body when no blank line follows.
C7_InlinePrefix ==
    (pc = "done" /\ NoEarlierRule(4) /\ IndexOf(body, ReleaseNotePrefix, 1) # 0) =>
        IsTrimOf(releaseNote, AfterPrefix)

HeadingLine == Hashes \o <<" ">> \o ReleaseNoteHeading \o NewLine

\* The text after the first ### Release Note line up to the next line that
\* starts with ###, or else the end of the body.
AfterHeading ==
    LET from == IndexOf(body, HeadingLine, 1) + Len(HeadingLine)
        heads == {i \in from..(Len(body) - Len(Hashes) + 1) :
                    /\ SubSeq(body, i, i + Len(Hashes) - 1) = Hashes
                    /\ (i = from \/ body[i - 1] = "\n")}
    IN  SubSeq(body, from,
               IF heads = {} THEN Len(body)
               ELSE (CHOOSE i \in heads : \A j \in heads : i <= j) - 1)

\* C8: when rules 1 and 2 do not match and the body holds a ### Release Note
\* heading line, the result is the trimmed text after the heading up to the
\* next level-3 heading, or up to the end of the body when there is none.
C8_HeadingSection ==
    (pc = "done" /\ NoEarlierRule(3) /\ IndexOf(body, HeadingLine, 1) # 0) =>
        IsTrimOf(releaseNote, AfterHeading)

---------------------------------------------------------------------------
(* getPRsWithReleaseNotes: the claims.                                     *)

\* The element of the answer that pr was decoded from.
ItemOf(pr) ==
    CHOOSE item \in Range(response.Body.items) : item.number = pr.Number

\* C9: the list returned for a successful answer holds no record without a
\* milestone.
C9_NoRecordWithoutMilestone ==
    (pc = "done" /\ err = Nil) =>
        \A i \in DOMAIN pullRequests : pullRequests[i].Milestone # <<>>

\* The answer held an element without a milestone and one with a
\* milestone: the first was dropped, the second returned.
C9_Witness ==
    /\ pc = "done" /\ err = Nil
    /\ \E item \in Range(response.Body.items) : item.milestone = <<>>
    /\ pullRequests # <<>>

\* C10: the returned list holds pull requests only; an element of the
\* answer that is a plain issue is not in it, milestone or not.
C10_OnlyPullRequests ==
    (pc = "done" /\ err = Nil) =>
        \A i \in DOMAIN pullRequests : ItemOf(pullRequests[i]).pull_request

---------------------------------------------------------------------------
(* main: the claims.                                                       *)

\* The positions of out that hold the entry what.
At(what) == {i \in DOMAIN out : out[i].ev = what}

\* The number a line stands for: the line without the white space at its
\* ends is an optional sign and digits. -1 stands for a line that is no
\* number or a negative one.
RECURSIVE Pow10(_)
Pow10(k) == IF k = 0 THEN 1 ELSE 10 * Pow10(k - 1)

NumberTyped(line) ==
    LET solid == {i \in DOMAIN line : ~IsSpace(line[i])}
        from == CHOOSE i \in solid : \A j \in solid : i <= j
        to == CHOOSE i \in solid : \A j \in solid : i >= j
        first == IF line[from] = "+" THEN from + 1 ELSE from
    IN  IF solid = {} \/ first > to
           \/ \E i \in first..to : line[i] \notin Range(Digits)
        THEN -1
        ELSE LET digit(i) == CHOOSE d \in 0..9 : Digits[d + 1] = line[i]
                 RECURSIVE Sum(_)
                 Sum(i) == IF i > to THEN 0
                           ELSE digit(i) * Pow10(to - i) + Sum(i + 1)
             IN  Sum(first)

\* The entries that a run must not add once it has stopped on an invalid
\* selection or on an error: requests, prompts, extraction and output.
Activity ==
    {"GET milestones", "GET issues", "Select an option (1-5)",
     "Available milestones", "Select a milestone (number)",
     "extractReleaseNote", "PR #", "PRs with release notes in milestone"}

\* C11: a repository selection that is no number of 1..5, and a milestone
\* selection that is no number of 1..(number of displayed milestones), is
\* answered by Invalid selection and the run stops: the prompt and Invalid
\* selection are the last two entries of out, so nothing follows.
C11_InvalidSelectionStops ==
    LET invalidRepo ==
            /\ At("Select an option (1-5)") # {}
            /\ NumberTyped(repoInput) \notin 1..5
        invalidMilestone ==
            /\ At("Select a milestone (number)") # {}
            /\ NumberTyped(input) \notin 1..Len(milestones)
    IN  /\ (invalidRepo \/ invalidMilestone) =>
            /\ pc = "exit"
            /\ Len(out) >= 2
            /\ out[Len(out)] = Did("Invalid selection")
            /\ out[Len(out) - 1] =
                    Did(IF invalidRepo THEN "Select an option (1-5)"
                        ELSE "Select a milestone (number)")
        /\ pc = "exit" => ~ENABLED MainNext

\* A milestone selection beyond the displayed list was answered by Invalid
\* selection after the milestones had been fetched.
C11_Witness ==
    /\ pc = "exit"
    /\ At("GET milestones") # {}
    /\ milestones # <<>>
    /\ NumberTyped(input) > Len(milestones)
    /\ out[Len(out)] = Did("Invalid selection")

\* The positions of out where the request what got an error for an answer.
FailedAt(what) ==
    {i \in At(what) : i < Len(out) /\ out[i + 1] = Failed}

\* C12: in a run of the all-repositories mode where the fetch of some
\* repository's milestones failed, no milestone list is displayed, no
\* milestone is asked for, and no PR is fetched, extracted or printed.
C12_MilestoneFailureAborts ==
    (repoChoice = 5 /\ FailedAt("GET milestones") # {}) =>
        \A i \in DOMAIN out :
            out[i].ev \notin {"Available milestones", "Select a milestone (number)",
                              "GET issues", "extractReleaseNote", "PR #"}

\* The header a token asks for: none for the empty token.
HeaderFor(token) == IF token = "" THEN <<>> ELSE <<"Bearer ", token>>

\* C13: every request of a run carries the header of one token, the flag's
\* value when that is not empty, else the environment's value when that is
\* not empty, else the built-in default; the header is there exactly when
\* that token is not empty.
C13_TokenPrecedence ==
    LET resolved == IF flagToken # "" THEN flagToken
                    ELSE IF envToken # "" THEN envToken
                    ELSE defaultAuthToken
    IN  /\ pc # "start" => authToken = resolved
        /\ \A i \in At("GET milestones") \cup At("GET issues") :
                /\ out[i].Authorization = HeaderFor(resolved)
                /\ out[i].Authorization # <<>> <=> resolved # ""

\* With the flag and the environment both set, a milestone request and a
\* PR request went out with the flag's token.
C13_Witness ==
    /\ flagToken # "" /\ envToken # "" /\ flagToken # envToken
    /\ \E i \in At("GET milestones") : out[i].Authorization = <<"Bearer ", flagToken>>
    /\ \E i \in At("GET issues") : out[i].Authorization = <<"Bearer ", flagToken>>

\* The (repository, milestone number) pairs that carry the title in the
\* lists that were unified to build the displayed menu.
MenuPairs(title) ==
    {<<menuSets[i][j].RepoURL, menuSets[i][j].Number>> :
        <<i, j>> \in {<<i, j>> \in (DOMAIN menuSets) \X (1..MaxFetched) :
                        /\ j \in DOMAIN menuSets[i]
                        /\ menuSets[i][j].Title = title}}

\* The pairs a PR fetch has been issued for.
FetchedPairs == {<<out[i].url, out[i].number>> : i \in At("GET issues")}

\* C14: in the all-repositories mode, once the PR fetches for the selected
\* title are over, they have been issued for the pairs that carried the
\* title in the lists the menu was built from, all of them and no other,
\* whatever the milestone requests after the selection were answered.
C14_FetchesForDisplayedMembers ==
    (repoChoice = 5 /\ At("Selected milestone") # {} /\ pc \in {"print", "exit"}) =>
        FetchedPairs = MenuPairs(selectedMilestone.Title)

\* The entries what of out, in order.
Entries(what) == SelectSeq(out, LAMBDA e : e.ev = what)

\* The numbers of the pull requests of answers with these many pull
\* requests each, in order: an answer numbers them 1, 2, ...
RECURSIVE NumbersOf(_)
NumbersOf(answers) ==
    IF answers = <<>> THEN <<>>
    ELSE [j \in 1..Head(answers).number |-> j] \o NumbersOf(Tail(answers))

\* C15: at the end of a run of the all-repositories mode in which a
\* milestone was selected, a PR fetch has been issued for every member of
\* the selected unified milestone, in member order; each failed one is
\* followed by its report; the pull requests extracted and printed are
\* those of the answers of the fetches that succeeded, all of them and in
\* order; and the no-PRs message is there exactly when they are none.
C15_FailedFetchSkipped ==
    (repoChoice = 5 /\ At("Selected milestone") # {} /\ pc = "exit") =>
        LET requests == Entries("GET issues")
            returned == NumbersOf(Entries("PRs returned"))
            numbers(what) == [i \in DOMAIN Entries(what) |-> Entries(what)[i].number]
        IN  /\ Len(requests) = Len(targetMilestones)
            /\ \A i \in DOMAIN requests :
                    /\ requests[i].url = targetMilestones[i].RepoURL
                    /\ requests[i].number = targetMilestones[i].Number
            /\ \A i \in FailedAt("GET issues") :
                    /\ i + 2 <= Len(out)
                    /\ out[i + 2] = Did("Error getting PRs from")
            /\ Len(Entries("Error getting PRs from")) = Cardinality(FailedAt("GET issues"))
            /\ numbers("extractReleaseNote") = returned
            /\ numbers("PR #") = returned
            /\ At("No PRs with 'release-note' label found") # {} <=> returned = <<>>
            /\ At("PRs with release notes in milestone") # {} <=> returned # <<>>

\* The selected unified milestone has two members; the PR fetch for the
\* first failed, the one for the second returned a pull request, and that
\* pull request was printed.
C15_Witness ==
    /\ repoChoice = 5 /\ pc = "exit"
    /\ Len(targetMilestones) = 2
    /\ \E i \in FailedAt("GET issues") : \E j \in At("PRs returned") :
            i < j /\ out[j].number > 0
    /\ At("PR #") # {}

\* C16: in a run of one repository, a failed milestone fetch or PR fetch
\* is followed by its report and by nothing else: the report is the last
\* entry of out, the run is at its end, and the request that failed has
\* been issued once.
C16_SingleFailureTerminal ==
    repoChoice \in 1..4 =>
        /\ \A i \in FailedAt("GET milestones") \cup FailedAt("GET issues") :
                /\ pc = "exit"
                /\ ~ENABLED MainNext
                /\ Len(out) = i + 2
                /\ out[i + 2] = Did(IF out[i].ev = "GET milestones"
                                    THEN "Error getting milestones"
                                    ELSE "Error getting PRs")
                /\ \A j \in DOMAIN out : out[j] = out[i] => j = i
        /\ Len(Entries("GET milestones")) <= 1
        /\ Len(Entries("GET issues")) <= 1

\* In a run of one repository the milestones were fetched, a milestone was
\* selected and the PR fetch failed.
C16_Witness ==
    /\ repoChoice \in 1..4 /\ pc = "exit"
    /\ At("Selected milestone") # {}
    /\ FailedAt("GET issues") # {}

============================================================================
